---- MODULE Spec2Model ----
(***************************************************************************)
(* Model of pkg/sources/job_progress_hook.go: the UnitHook progress        *)
(* aggregator, its LRU metrics cache, and the eviction callback.           *)
(***************************************************************************)
EXTENDS Integers, Sequences, FiniteSets, TLC

(***************************************************************************)
(* Bounds of the model.                                                    *)
(***************************************************************************)
\* Size of the metrics cache explored (lru.NewWithEvict(1024, ...) by
\* default; WithUnitHookCache installs a cache of any size).
Capacity == 2
\* Number of execution contexts calling the hook concurrently.
NumCtx == 2
\* In the concurrent specification ReportChunk is explored while an entry
\* has counted fewer chunks than this.
MaxConcChunks == 2
\* ReportChunk is explored while an entry has counted fewer chunks than this.
MaxChunks == 2
\* ReportError is explored while an entry holds fewer errors than this.
MaxErrors == 1

(***************************************************************************)
(* Values.                                                                 *)
(***************************************************************************)
\* *time.Time: nil is the empty sequence, &t the one-element sequence.
NilTime == <<>>
Ptr(t) == <<t>>

\* SourceUnit interface values: the nil interface, or a unit whose
\* SourceUnitID() is the character sequence id.
NilUnit == [present |-> FALSE, id |-> <<>>]
MkUnit(s) == [present |-> TRUE, id |-> s]
Units == {NilUnit, MkUnit(<<>>), MkUnit(<<"a">>)}

\* JobProgressRef values (SourceID, JobID).
MkRef(s, j) == [SourceID |-> s, JobID |-> j]
Refs == {MkRef(1, 2), MkRef(1, 23)}

\* The (job, unit) pairs the calls are made for: a job whose source has
\* units (one of them with an empty identifier) and a job without units.
Targets ==
  {<<MkRef(1, 2), unit>> : unit \in Units} \cup {<<MkRef(1, 23), NilUnit>>}

\* Times handed to StartUnitChunking / EndUnitChunking.
StartTimes == {1}
EndTimes == {2}

\* len(chunk.Data) of the chunks reported.
ChunkSizes == {2}

\* Errors: a plain error, or a ChunkError wrapping a unit (possibly nil).
PlainErr == [scoped |-> FALSE, Unit |-> NilUnit]
ChunkError(u) == [scoped |-> TRUE, Unit |-> u]
Errs == {PlainErr, ChunkError(NilUnit), ChunkError(MkUnit(<<"a">>))}

\* Values ref.Snapshot() may return: job-level start time, end time, errors.
MkSnap(s, e, errs) == [StartTime |-> s, EndTime |-> e, Errors |-> errs]
NoSnapshot == MkSnap(NilTime, NilTime, <<>>)
Snapshots ==
  { NoSnapshot,
    MkSnap(Ptr(1), Ptr(2), <<PlainErr>>) }

(***************************************************************************)
(* Key derivation: fmt.Sprintf("%d/%d/%s", SourceID, JobID, unitID).       *)
(***************************************************************************)
Digit(n) == <<"0", "1", "2", "3", "4", "5", "6", "7", "8", "9">>[n + 1]

RECURSIVE Itoa(_)
Itoa(n) ==
  IF n < 0 THEN <<"-">> \o Itoa(0 - n)
  ELSE IF n < 10 THEN <<Digit(n)>>
  ELSE Itoa(n \div 10) \o <<Digit(n % 10)>>

id(ref, unit) ==
  LET unitID == IF unit.present THEN unit.id ELSE <<>>
  IN  Itoa(ref.SourceID) \o <<"/">> \o Itoa(ref.JobID) \o <<"/">> \o unitID

\* Mutation: a prefix test that leaves out the last character of the prefix,
\* the separator that ends the job identifier.
HasPrefixWithoutSeparator(s, prefix) ==
  /\ Len(prefix) - 1 <= Len(s)
  /\ SubSeq(s, 1, Len(prefix) - 1) = SubSeq(prefix, 1, Len(prefix) - 1)

HasPrefix(s, prefix) ==
  /\ Len(prefix) <= Len(s)
  /\ SubSeq(s, 1, Len(prefix)) = prefix

(***************************************************************************)
(* UnitMetrics records.                                                    *)
(***************************************************************************)
NewMetrics(unit, ref, start) ==
  [ Unit |-> unit, Parent |-> ref, StartTime |-> start, EndTime |-> NilTime,
    TotalChunks |-> 0, TotalBytes |-> 0, Errors |-> <<>>, handled |-> FALSE ]

\* Mutation: takes a started entry for a finished one.
IsFinishedByStart(m) == m.StartTime # NilTime

IsFinished(m) == m.EndTime # NilTime

(***************************************************************************)
(* The LRU cache (lru.Cache[string, *UnitMetrics]): its size and its       *)
(* items, a sequence of [key, val] entries, least recently used first.     *)
(***************************************************************************)
NewCache(n) == [size |-> n, items |-> <<>>]

Keys(c) == [i \in 1..Len(c.items) |-> c.items[i].key]

Contains(c, k) == \E i \in 1..Len(c.items) : c.items[i].key = k

Peek(c, k) == c.items[CHOOSE i \in 1..Len(c.items) : c.items[i].key = k].val

Without(c, k) == SelectSeq(c.items, LAMBDA e : e.key # k)

\* Mutation: a lookup that does not refresh the entry.
GetKeepsOrder(c, k) == c

\* Get: a hit moves the entry to the most-recently-used end.
Get(c, k) ==
  IF Contains(c, k)
  THEN [c EXCEPT !.items = Append(Without(c, k), [key |-> k, val |-> Peek(c, k)])]
  ELSE c

\* The cached value is a pointer: a write through it leaves the order alone.
Store(c, k, m) ==
  [c EXCEPT !.items = [i \in 1..Len(c.items) |->
      IF c.items[i].key = k THEN [key |-> k, val |-> m] ELSE c.items[i]]]

\* Mutation: a callback that does not look at the handled flag.
OnEvictAlwaysLogs(log, k, m) == Append(log, k)

\* The eviction callback of NewUnitHook: silent for a handled value,
\* otherwise logs "dropping unit metric" for the key.
OnEvict(log, k, m) == IF m.handled THEN log ELSE Append(log, k)

\* Mutation: a cache that grows without evicting.
AddNeverEvicts(st, k, m) ==
  [st EXCEPT !.cache.items = Append(Without(st.cache, k), [key |-> k, val |-> m])]

\* Add: an existing key is overwritten and refreshed, nothing is evicted;
\* a new key is appended and, if the cache outgrew its size, the oldest
\* entry is removed and handed to the callback.
Add(st, k, m) ==
  LET c == st.cache IN
  IF Contains(c, k)
  THEN [st EXCEPT !.cache.items = Append(Without(c, k), [key |-> k, val |-> m])]
  ELSE LET grown == Append(c.items, [key |-> k, val |-> m]) IN
       IF Len(grown) > c.size
       THEN [st EXCEPT !.cache.items = Tail(grown),
                       !.diag = OnEvict(st.diag, grown[1].key, grown[1].val)]
       ELSE [st EXCEPT !.cache.items = grown]

\* Remove: deletes the entry and hands it to the callback.
Remove(st, k) ==
  IF Contains(st.cache, k)
  THEN [st EXCEPT !.cache.items = Without(st.cache, k),
                  !.diag = OnEvict(st.diag, k, Peek(st.cache, k))]
  ELSE st

(***************************************************************************)
(* The handlers of UnitHook.  Each takes the cache as it is when the lock  *)
(* is acquired and yields the cache when the lock is released, together    *)
(* with the diagnostics logged by the eviction callback during the call,   *)
(* the returned slice (UnitMetrics) and the source line of the branch the  *)
(* handler took.                                                           *)
(***************************************************************************)
Enter(c) == [cache |-> c, diag |-> <<>>, output |-> <<>>, branch |-> 0]

At(st, line) == [st EXCEPT !.branch = line]

DoStartUnitChunking(c, ref, unit, start) ==
  At(Add(Enter(c), id(ref, unit), NewMetrics(unit, ref, Ptr(start))), 60)

\* Mutation: the end of a unit that has no entry creates one.
DoEndUnitChunkingCreates(c, ref, unit, end) ==
  LET k == id(ref, unit) IN
  IF ~Contains(c, k)
  THEN At(Add(Enter(c), k, [NewMetrics(unit, ref, NilTime) EXCEPT !.EndTime = Ptr(end)]), 74)
  ELSE LET got == Get(c, k) IN
       At(Enter(Store(got, k, [Peek(got, k) EXCEPT !.EndTime = Ptr(end)])), 76)

DoEndUnitChunking(c, ref, unit, end) ==
  LET k == id(ref, unit) IN
  IF ~Contains(c, k) THEN At(Enter(c), 74)
  ELSE LET got == Get(c, k) IN
       At(Enter(Store(got, k, [Peek(got, k) EXCEPT !.EndTime = Ptr(end)])), 76)

\* Mutation: creates the entry of an evicted unit too.
LookupAlwaysCreates(c, ref, unit, snap) ==
  LET k == id(ref, unit) IN
  IF ~Contains(c, k)
  THEN At(Add(Enter(c), k, NewMetrics(unit, ref, snap.StartTime)), 95)
  ELSE At(Enter(Get(c, k)), 97)

\* Mutation: drops the chunk of a source without units as well.
LookupNeverCreates(c, ref, unit, snap) ==
  LET k == id(ref, unit) IN
  IF ~Contains(c, k) THEN At(Enter(c), 87) ELSE At(Enter(Get(c, k)), 97)

\* Lines 84-96 of ReportChunk: look the entry up, drop the event of an
\* evicted unit, create the entry of a source without units.
Lookup(c, ref, unit, snap) ==
  LET k == id(ref, unit) IN
  IF ~Contains(c, k) /\ unit.present THEN At(Enter(c), 87)
  ELSE IF ~Contains(c, k)
  THEN At(Add(Enter(c), k, NewMetrics(NilUnit, ref, snap.StartTime)), 95)
  ELSE At(Enter(Get(c, k)), 97)

\* Lines 97-98: metrics.TotalChunks++ ; metrics.TotalBytes += len(chunk.Data),
\* each a load of the field followed by a store.
Load(m) == [chunks |-> m.TotalChunks, bytes |-> m.TotalBytes]

\* Mutation: counts the chunk but not its bytes.
WriteBackChunksOnly(m, loaded, size) ==
  [m EXCEPT !.TotalChunks = loaded.chunks + 1]

WriteBack(m, loaded, size) ==
  [m EXCEPT !.TotalChunks = loaded.chunks + 1, !.TotalBytes = loaded.bytes + size]

Count(c, k, loaded, size) ==
  IF Contains(c, k) THEN Store(c, k, WriteBack(Peek(c, k), loaded, size)) ELSE c

DoReportChunk(c, ref, unit, size, snap) ==
  LET k == id(ref, unit)
      found == Lookup(c, ref, unit, snap)
  IN  IF found.branch = 87 THEN found
      ELSE [found EXCEPT !.cache = Count(found.cache, k, Load(Peek(found.cache, k)), size)]

\* if metrics, ok := u.metrics.Get(id); ok { metrics.Errors = append(...) }
AppendError(c, k, err) ==
  IF ~Contains(c, k) THEN c
  ELSE LET got == Get(c, k) IN
       Store(got, k, [Peek(got, k) EXCEPT !.Errors = Append(@, err)])

\* Mutation: a unit-scoped error creates the entry of a unit that has none.
DoReportErrorCreates(c, ref, err) ==
  LET c1 == AppendError(c, id(ref, NilUnit), err) IN
  IF ~err.scoped THEN At(Enter(c1), 113)
  ELSE IF ~Contains(c1, id(ref, err.Unit))
  THEN At(Add(Enter(c1), id(ref, err.Unit),
              [NewMetrics(err.Unit, ref, NilTime) EXCEPT !.Errors = <<err>>]), 119)
  ELSE At(Enter(AppendError(c1, id(ref, err.Unit), err)), 121)

\* Mutation: a unit-scoped error goes to the unit's entry only.
DoReportErrorUnitOnly(c, ref, err) ==
  IF ~err.scoped THEN At(Enter(AppendError(c, id(ref, NilUnit), err)), 113)
  ELSE IF ~Contains(c, id(ref, err.Unit)) THEN At(Enter(c), 119)
  ELSE At(Enter(AppendError(c, id(ref, err.Unit), err)), 121)

DoReportError(c, ref, err) ==
  LET c1 == AppendError(c, id(ref, NilUnit), err) IN
  IF ~err.scoped THEN At(Enter(c1), 113)
  ELSE IF ~Contains(c1, id(ref, err.Unit)) THEN At(Enter(c1), 119)
  ELSE At(Enter(AppendError(c1, id(ref, err.Unit), err)), 121)

\* Mutation: replaces the counters by the job's too, which has none.
FinishOneResetsCounters(c, prefix, k, snap) ==
  IF ~HasPrefix(k, prefix) THEN c
  ELSE IF ~Contains(c, k) THEN c
  ELSE LET got == Get(c, k)
           metric == Peek(got, k)
       IN  IF ~metric.Unit.present
           THEN Store(got, k, [metric EXCEPT !.StartTime = snap.StartTime,
                                             !.EndTime = snap.EndTime,
                                             !.Errors = snap.Errors,
                                             !.TotalChunks = 0,
                                             !.TotalBytes = 0])
           ELSE got

\* Mutation: takes the times of the job but keeps the entry's errors.
FinishOneKeepsErrors(c, prefix, k, snap) ==
  IF ~HasPrefix(k, prefix) THEN c
  ELSE IF ~Contains(c, k) THEN c
  ELSE LET got == Get(c, k)
           metric == Peek(got, k)
       IN  IF ~metric.Unit.present
           THEN Store(got, k, [metric EXCEPT !.StartTime = snap.StartTime,
                                             !.EndTime = snap.EndTime])
           ELSE got

\* One iteration of the loop of Finish, over the key k.
FinishOne(c, prefix, k, snap) ==
  IF ~HasPrefix(k, prefix) THEN c
  ELSE IF ~Contains(c, k) THEN c
  ELSE LET got == Get(c, k)
           metric == Peek(got, k)
       IN  IF ~metric.Unit.present
           THEN Store(got, k, [metric EXCEPT !.StartTime = snap.StartTime,
                                             !.EndTime = snap.EndTime,
                                             !.Errors = snap.Errors])
           ELSE got

RECURSIVE FinishLoop(_, _, _, _)
FinishLoop(c, prefix, ks, snap) ==
  IF ks = <<>> THEN c
  ELSE FinishLoop(FinishOne(c, prefix, Head(ks), snap), prefix, Tail(ks), snap)

DoFinish(c, ref, snap) ==
  At(Enter(FinishLoop(c, id(ref, NilUnit), Keys(c), snap)), 147)

\* Mutation: removes a finished entry without returning it.
UnitMetricsOneSilentDrain(st, k) ==
  IF ~Contains(st.cache, k) THEN st
  ELSE LET got == Get(st.cache, k)
           metric == Peek(got, k)
       IN  IF IsFinished(metric)
           THEN Remove([st EXCEPT !.cache = Store(got, k, [metric EXCEPT !.handled = TRUE])], k)
           ELSE [st EXCEPT !.cache = got, !.output = Append(@, metric)]

\* Mutation: marks every returned entry as handled, finished or not.
UnitMetricsOneMarksReturned(st, k) ==
  IF ~Contains(st.cache, k) THEN st
  ELSE LET got == Get(st.cache, k)
           metric == Peek(got, k)
           st1 == [st EXCEPT !.cache = Store(got, k, [metric EXCEPT !.handled = TRUE]),
                             !.output = Append(@, metric)]
       IN  IF IsFinished(metric) THEN Remove(st1, k) ELSE st1

\* One iteration of the loop of UnitMetrics, over the key k.
UnitMetricsOne(st, k) ==
  IF ~Contains(st.cache, k) THEN st
  ELSE LET got == Get(st.cache, k)
           metric == Peek(got, k)
           st1 == [st EXCEPT !.cache = got, !.output = Append(@, metric)]
       IN  IF IsFinished(metric)
           THEN Remove([st1 EXCEPT !.cache = Store(got, k, [metric EXCEPT !.handled = TRUE])], k)
           ELSE st1

RECURSIVE UnitMetricsLoop(_, _)
UnitMetricsLoop(st, ks) ==
  IF ks = <<>> THEN st
  ELSE UnitMetricsLoop(UnitMetricsOne(st, Head(ks)), Tail(ks))

DoUnitMetrics(c) == At(UnitMetricsLoop(Enter(c), Keys(c)), 167)

(***************************************************************************)
(* State.                                                                  *)
(*   cache   the LRU cache u.metrics                                       *)
(*   output  the slice returned by the last call (empty unless it was      *)
(*           UnitMetrics)                                                  *)
(*   diag    the keys the eviction callback logged during the last call    *)
(*   last    the last call: the method and the branch it took              *)
(*   hist    history of the calls made on each resident key, kept for the  *)
(*           end-to-end properties (no handler reads it)                   *)
(*   recent  the resident keys in the order of their most recent touch by  *)
(*           a call, oldest first, kept for the eviction properties (no    *)
(*           handler reads it)                                             *)
(*   mu      the holder of u.mu (0 when unlocked)                          *)
(*   pc      the position of each execution context                        *)
(*   tmp     the locals of a context inside ReportChunk                    *)
(***************************************************************************)
VARIABLES cache, output, diag, last, hist, recent, mu, pc, tmp

vars == <<cache, output, diag, last, hist, recent, mu, pc, tmp>>

Ctxs == 1..NumCtx

Resident(k) == Contains(cache, k)

Entry(k) == Peek(cache, k)

KeySet(c) == {c.items[i].key : i \in 1..Len(c.items)}

\* The key a returned record belongs to.
KeyOf(m) == id(m.Parent, m.Unit)

(***************************************************************************)
(* History of a resident key: the calls made on it since the               *)
(* StartUnitChunking that created its entry.                               *)
(*   "started"  StartUnitChunking(T0), then N ReportChunk calls whose      *)
(*              sizes sum to Sum; the entry was never evicted and no       *)
(*              other call was made on the key                             *)
(*   "ended"    ... then EndUnitChunking(T1)                               *)
(*   "none"     anything else                                              *)
(***************************************************************************)
NoHist == [phase |-> "none", T0 |-> 0, N |-> 0, Sum |-> 0, T1 |-> 0]

HistAt(h, k) == IF k \in DOMAIN h THEN h[k] ELSE NoHist

\* call: [op, key, time, size].
HistOf(h, k, call) ==
  IF call.op = "StartUnitChunking" /\ call.key = k
  THEN [phase |-> "started", T0 |-> call.time, N |-> 0, Sum |-> 0, T1 |-> 0]
  ELSE IF h.phase = "delivered" THEN NoHist
  ELSE IF h.phase = "none" \/ call.key # k \/ call.op = "ReportError" THEN h
  ELSE IF call.op = "ReportChunk" /\ h.phase = "started"
  THEN [h EXCEPT !.N = @ + 1, !.Sum = @ + call.size]
  ELSE IF call.op = "EndUnitChunking" /\ h.phase = "started"
  THEN [h EXCEPT !.phase = "ended", !.T1 = call.time]
  ELSE NoHist

\* The keys whose finished entry the call has just returned and removed.
Drained(call, after) ==
  {k \in DOMAIN hist :
      call.op = "UnitMetrics" /\ hist[k].phase = "ended" /\ ~Contains(after, k)}

\* after: the cache when the call returns.
Record(call, after) ==
  hist' = [k \in KeySet(after) \cup Drained(call, after) |->
             IF Contains(after, k) THEN HistOf(HistAt(hist, k), k, call)
             ELSE [hist[k] EXCEPT !.phase = "delivered"]]

Call(op, key, time, size) == [op |-> op, key |-> key, time |-> time, size |-> size]

\* The order of most recent touch after the keys ks were touched one after
\* the other.
RECURSIVE TouchAll(_, _)
TouchAll(r, ks) ==
  IF ks = <<>> THEN r
  ELSE TouchAll(Append(SelectSeq(r, LAMBDA k : k # Head(ks)), Head(ks)), Tail(ks))

\* The call looked up or inserted the keys ks, in this order; a key that is
\* not resident when the call returns has no entry to be touched.
Touch(ks) ==
  recent' = SelectSeq(TouchAll(recent, ks), LAMBDA k : Contains(cache', k))

\* metrics is a pointer: live tells whether the object it points to is still
\* the one cached under key.
NoLocals ==
  [key |-> <<>>, loaded |-> [chunks |-> 0, bytes |-> 0], size |-> 0, live |-> FALSE]

InitWith(n) ==
  /\ cache = NewCache(n)
  /\ output = <<>>
  /\ diag = <<>>
  /\ last = [op |-> "NewUnitHook", branch |-> 43]
  /\ hist = <<>>
  /\ recent = <<>>
  /\ mu = 0
  /\ pc = [t \in Ctxs |-> "idle"]
  /\ tmp = [t \in Ctxs |-> NoLocals]

Return(st, call) ==
  /\ cache' = st.cache
  /\ output' = st.output
  /\ diag' = st.diag
  /\ last' = [op |-> call.op, branch |-> st.branch]
  /\ Record(call, st.cache)

(***************************************************************************)
(* The calls.  Every method holds u.mu from its first statement to its     *)
(* return, so a call is one step of the cache.                             *)
(***************************************************************************)
StartUnitChunking(ref, unit, start) ==
  /\ Return(DoStartUnitChunking(cache, ref, unit, start),
            Call("StartUnitChunking", id(ref, unit), start, 0))
  /\ Touch(<<id(ref, unit)>>)

EndUnitChunking(ref, unit, end) ==
  /\ Return(DoEndUnitChunking(cache, ref, unit, end),
            Call("EndUnitChunking", id(ref, unit), end, 0))
  /\ Touch(<<id(ref, unit)>>)

\* ref.Snapshot() is read only on the branch that creates the entry.
SnapshotRead(ref, unit) ==
  IF Resident(id(ref, unit)) \/ unit.present THEN {NoSnapshot} ELSE Snapshots

ChunkBound(ref, unit) ==
  Resident(id(ref, unit)) => Entry(id(ref, unit)).TotalChunks < MaxChunks

ReportChunk(ref, unit, size, snap) ==
  /\ ChunkBound(ref, unit)
  /\ snap \in SnapshotRead(ref, unit)
  /\ Return(DoReportChunk(cache, ref, unit, size, snap),
            Call("ReportChunk", id(ref, unit), 0, size))
  /\ Touch(<<id(ref, unit)>>)

ErrorBound(ref, err) ==
  \A k \in {id(ref, NilUnit), id(ref, err.Unit)} :
     Resident(k) => Len(Entry(k).Errors) < MaxErrors

ReportError(ref, err) ==
  /\ ErrorBound(ref, err)
  /\ Return(DoReportError(cache, ref, err),
            Call("ReportError", id(ref, NilUnit), 0, 0))
  /\ Touch(<<id(ref, NilUnit)>> \o (IF err.scoped THEN <<id(ref, err.Unit)>> ELSE <<>>))

Finish(ref, snap) ==
  /\ Return(DoFinish(cache, ref, snap), Call("Finish", id(ref, NilUnit), 0, 0))
  /\ Touch(SelectSeq(recent, LAMBDA k : HasPrefix(k, id(ref, NilUnit))))

UnitMetrics ==
  /\ Return(DoUnitMetrics(cache), Call("UnitMetrics", <<>>, 0, 0))
  /\ Touch(recent)

Init == InitWith(Capacity)

\* A single caller: no lock is contended, each call is one step.
ctx == <<mu, pc, tmp>>

Next ==
  \/ \E target \in Targets, start \in StartTimes :
        StartUnitChunking(target[1], target[2], start) /\ UNCHANGED ctx
  \/ \E target \in Targets, end \in EndTimes :
        EndUnitChunking(target[1], target[2], end) /\ UNCHANGED ctx
  \/ \E target \in Targets, size \in ChunkSizes, snap \in Snapshots :
        ReportChunk(target[1], target[2], size, snap) /\ UNCHANGED ctx
  \/ \E ref \in Refs, err \in Errs : ReportError(ref, err) /\ UNCHANGED ctx
  \/ \E ref \in Refs, snap \in Snapshots : Finish(ref, snap) /\ UNCHANGED ctx
  \/ UnitMetrics /\ UNCHANGED ctx

Spec == Init /\ [][Next]_vars

(***************************************************************************)
(* The concurrent specification: NumCtx execution contexts call the hook.  *)
(* A context enters a method and blocks in u.mu.Lock() ("waiting"), gets   *)
(* the lock ("locked"), runs the body, and releases the lock on return     *)
(* ("unlocking", the deferred u.mu.Unlock()).  The body of ReportChunk is  *)
(* two steps, the lookup with the loads of the counters and the stores     *)
(* ("counting"), so that an interleaving of two bodies would show.         *)
(* The hook of this specification has a cache of one entry.                *)
(***************************************************************************)
ConcRefs == {MkRef(1, 2)}
ConcUnits == {NilUnit, MkUnit(<<"a">>)}
ConcErrs == {PlainErr, ChunkError(MkUnit(<<"a">>))}

Goto(t, where) == pc' = [pc EXCEPT ![t] = where]

Invoke(t) ==
  /\ pc[t] = "idle"
  /\ Goto(t, "waiting")
  /\ UNCHANGED <<cache, output, diag, last, hist, recent, mu, tmp>>

\* Mutation: a mutex that never blocks.
CanLockAlways == TRUE

\* u.mu.Lock() returns once the mutex is free.
CanLock == mu = 0

Lock(t) ==
  /\ pc[t] = "waiting"
  /\ CanLock
  /\ mu' = t
  /\ Goto(t, "locked")
  /\ UNCHANGED <<cache, output, diag, last, hist, recent, tmp>>

Unlock(t) ==
  /\ pc[t] = "unlocking"
  /\ mu' = 0
  /\ Goto(t, "idle")
  /\ UNCHANGED <<cache, output, diag, last, hist, recent, tmp>>

\* The keys a step removed from the cache.
Gone == KeySet(cache) \ KeySet(cache')

\* Mutation: an eviction callback that calls back into the hook.
CallbackLocksMutex == TRUE

\* Whether the eviction callback acquires u.mu: the callback of NewUnitHook
\* reads value.handled and logs, nothing else.
CallbackLocks == FALSE

\* Where a context is after the body of its method: at the deferred unlock,
\* or stuck in the callback that waits for the mutex its own call holds.
AfterBody == IF CallbackLocks /\ Gone # {} THEN "blocked" ELSE "unlocking"

\* The keys whose cached object the step replaced or removed: a pointer
\* obtained before the step no longer points into the cache.
Replaced ==
  (KeySet(cache) \ KeySet(cache'))
  \cup (IF last'.op = "StartUnitChunking"
        THEN {cache'.items[Len(cache'.items)].key} ELSE {})

Detach(locals) ==
  [t \in Ctxs |-> IF locals[t].key \in Replaced
                  THEN [locals[t] EXCEPT !.live = FALSE] ELSE locals[t]]

\* The body of a method other than ReportChunk.
Body(t) ==
  /\ pc[t] = "locked"
  /\ UNCHANGED mu
  /\ \/ \E ref \in ConcRefs, unit \in ConcUnits, start \in StartTimes :
          StartUnitChunking(ref, unit, start)
     \/ \E ref \in ConcRefs, unit \in ConcUnits, end \in EndTimes :
          EndUnitChunking(ref, unit, end)
     \/ \E ref \in ConcRefs, err \in ConcErrs : ReportError(ref, err)
     \/ \E ref \in ConcRefs, snap \in Snapshots : Finish(ref, snap)
     \/ UnitMetrics
  /\ Goto(t, AfterBody)
  /\ tmp' = Detach(tmp)

\* ReportChunk, lines 84-98 up to the loads of the two counters.
ChunkLookup(t, ref, unit, size, snap) ==
  LET k == id(ref, unit)
      found == Lookup(cache, ref, unit, snap)
  IN  /\ pc[t] = "locked"
      /\ Resident(k) => Entry(k).TotalChunks < MaxConcChunks
      /\ snap \in SnapshotRead(ref, unit)
      /\ Return(found, Call("ReportChunk", k, 0, size))
      /\ Touch(<<k>>)
      /\ IF found.branch = 87
         THEN Goto(t, "unlocking") /\ tmp' = tmp
         ELSE /\ Goto(t, IF AfterBody = "blocked" THEN "blocked" ELSE "counting")
              /\ tmp' = [Detach(tmp) EXCEPT ![t] =
                           [key |-> k, size |-> size, live |-> TRUE,
                            loaded |-> Load(Peek(found.cache, k))]]
      /\ UNCHANGED mu

\* ReportChunk, the stores of lines 97-98.
ChunkCount(t) ==
  /\ pc[t] = "counting"
  /\ cache' = IF tmp[t].live
              THEN Count(cache, tmp[t].key, tmp[t].loaded, tmp[t].size)
              ELSE cache
  /\ tmp' = [tmp EXCEPT ![t] = NoLocals]
  /\ Goto(t, "unlocking")
  /\ UNCHANGED <<output, diag, last, hist, recent, mu>>

ConcInit == InitWith(1)

ConcNext ==
  \E t \in Ctxs :
     \/ Invoke(t)
     \/ Lock(t)
     \/ Body(t)
     \/ \E ref \in ConcRefs, unit \in ConcUnits, size \in ChunkSizes, snap \in Snapshots :
          ChunkLookup(t, ref, unit, size, snap)
     \/ ChunkCount(t)
     \/ Unlock(t)

ConcSpec == ConcInit /\ [][ConcNext]_vars

\* Scheduling: a context that can take a step inside its call eventually
\* takes it, and a context waiting in u.mu.Lock() eventually gets a mutex
\* that is released again and again (sync.Mutex hands the lock to a waiter
\* that has been starved).
ConcFairness ==
  \A t \in Ctxs :
     /\ WF_vars(Body(t))
     /\ WF_vars(ChunkCount(t))
     /\ WF_vars(Unlock(t))
     /\ SF_vars(Lock(t))

ConcFairSpec == ConcSpec /\ ConcFairness

(***************************************************************************)
(* Properties.                                                             *)
(***************************************************************************)
\* The end time of a record is set.
EndSet(m) == m.EndTime # NilTime

\* The indices of the records of a returned slice that belong to key k.
RecordsOf(out, k) == {i \in 1..Len(out) : KeyOf(out[i]) = k}

SameMetrics(r, m) ==
  /\ r.Unit = m.Unit
  /\ r.Parent = m.Parent
  /\ r.StartTime = m.StartTime
  /\ r.EndTime = m.EndTime
  /\ r.TotalChunks = m.TotalChunks
  /\ r.TotalBytes = m.TotalBytes
  /\ r.Errors = m.Errors

\* C1: after StartUnitChunking(T0), N ReportChunk calls and
\* EndUnitChunking(T1) on a key whose entry was never evicted meanwhile, the
\* next UnitMetrics() returns exactly one record for the key, with
\* TotalChunks = N, TotalBytes = the sum of the chunk sizes, StartTime = T0
\* and EndTime = T1, and removes the entry; no UnitMetrics() call returns a
\* record for a key that is not resident, and a key becomes resident only by
\* a StartUnitChunking or a no-unit ReportChunk that creates it.
C1_DeliveredExactlyOnce ==
  [][ /\ last'.op = "UnitMetrics" =>
           /\ \A k \in DOMAIN hist :
                 hist[k].phase = "ended" =>
                    /\ Cardinality(RecordsOf(output', k)) = 1
                    /\ \A i \in RecordsOf(output', k) :
                          /\ output'[i].TotalChunks = hist[k].N
                          /\ output'[i].TotalBytes = hist[k].Sum
                          /\ output'[i].StartTime = Ptr(hist[k].T0)
                          /\ output'[i].EndTime = Ptr(hist[k].T1)
                    /\ ~Contains(cache', k)
           /\ \A i \in 1..Len(output') : Contains(cache, KeyOf(output'[i]))
      /\ KeySet(cache') \subseteq KeySet(cache) \/ last'.branch \in {60, 95}
    ]_vars

C1_Witness ==
  /\ last.op = "UnitMetrics"
  /\ \E k \in DOMAIN hist :
        /\ hist[k].phase = "delivered"
        /\ hist[k].N = 2
        /\ hist[k].Sum = 4
        /\ Cardinality(RecordsOf(output, k)) = 1
        /\ ~Resident(k)

\* C2: after any UnitMetrics() call no finished entry is resident, and every
\* entry that was resident and unfinished before the call is still resident
\* and unchanged.
C2_DrainFinishedKeepUnfinished ==
  [][ last'.op = "UnitMetrics" =>
        /\ \A k \in KeySet(cache') : ~EndSet(Peek(cache', k))
        /\ \A k \in KeySet(cache) :
              ~EndSet(Entry(k)) =>
                 Contains(cache', k) /\ Peek(cache', k) = Entry(k)
    ]_vars

C2_Witness ==
  /\ last.op = "UnitMetrics"
  /\ \E i, j \in 1..Len(output) :
        /\ EndSet(output[i]) /\ ~Resident(KeyOf(output[i]))
        /\ ~EndSet(output[j]) /\ Resident(KeyOf(output[j]))
        /\ output[j].TotalChunks > 0
        /\ SameMetrics(output[j], Entry(KeyOf(output[j])))

\* C3: every UnitMetrics() call returns exactly one record for each key
\* resident at the call, finished or not, carrying the entry's field values
\* at that moment, and no record for any other key.
C3_ReturnsEveryResidentEntry ==
  [][ last'.op = "UnitMetrics" =>
        /\ Len(output') = Len(cache.items)
        /\ \A k \in KeySet(cache) :
              /\ Cardinality(RecordsOf(output', k)) = 1
              /\ \A i \in RecordsOf(output', k) : SameMetrics(output'[i], Entry(k))
        /\ \A i \in 1..Len(output') : Contains(cache, KeyOf(output'[i]))
    ]_vars

C3_Witness ==
  /\ last.op = "UnitMetrics"
  /\ Len(output) = 2
  /\ EndSet(output[1])
  /\ ~EndSet(output[2])
  /\ output[1].Errors # <<>>

\* C4: ReportChunk for a present unit whose key is not resident changes
\* nothing: no entry is created, the resident keys, their order and every
\* entry's fields are unchanged, and nothing is evicted or logged.
C4_ChunkOfAbsentUnitIsDropped ==
  [][ last'.op = "ReportChunk" =>
      \A target \in Targets, size \in ChunkSizes :
         ( /\ target[2].present
           /\ ~Resident(id(target[1], target[2]))
           /\ ReportChunk(target[1], target[2], size, NoSnapshot) )
         => cache' = cache /\ diag' = <<>> /\ output' = <<>>
    ]_vars

C4_Witness ==
  /\ last.op = "ReportChunk"
  /\ last.branch = 87
  /\ Len(cache.items) = Capacity
  /\ ~Resident(id(MkRef(1, 2), MkUnit(<<"a">>)))

\* C5: ReportChunk with an absent unit, when the job's no-unit key is not
\* resident, creates the entry with the job snapshot's start time, no end
\* time and this chunk already counted; when the key is resident it adds the
\* chunk to that entry.
C5_NoUnitChunkCreatesAndAccumulates ==
  [][ last'.op = "ReportChunk" =>
      \A ref \in Refs, size \in ChunkSizes, snap \in Snapshots :
         ReportChunk(ref, NilUnit, size, snap) =>
            LET k == id(ref, NilUnit) IN
            /\ Contains(cache', k)
            /\ Peek(cache', k) =
                 IF Resident(k)
                 THEN [Entry(k) EXCEPT !.TotalChunks = @ + 1, !.TotalBytes = @ + size]
                 ELSE [ Unit |-> NilUnit, Parent |-> ref,
                        StartTime |-> snap.StartTime, EndTime |-> NilTime,
                        TotalChunks |-> 1, TotalBytes |-> size,
                        Errors |-> <<>>, handled |-> FALSE ]
    ]_vars

C5_Witness ==
  /\ last.op = "ReportChunk"
  /\ last.branch = 97
  /\ \E ref \in Refs :
        /\ Resident(id(ref, NilUnit))
        /\ HistAt(hist, id(ref, NilUnit)).phase = "none"
        /\ Entry(id(ref, NilUnit)) =
             [ Unit |-> NilUnit, Parent |-> ref,
               StartTime |-> Ptr(1), EndTime |-> NilTime,
               TotalChunks |-> 2, TotalBytes |-> 4,
               Errors |-> <<>>, handled |-> FALSE ]

\* C6: immediately after Finish(job), the job's no-unit entry (unit absent)
\* has start time, end time and errors equal to those of the job snapshot
\* read by Finish.
C6_FinishCopiesJobSnapshot ==
  [][ last'.op = "Finish" =>
      \A ref \in Refs, snap \in Snapshots :
         ( /\ Resident(id(ref, NilUnit))
           /\ ~Entry(id(ref, NilUnit)).Unit.present
           /\ Finish(ref, snap) )
         => LET k == id(ref, NilUnit) IN
            /\ Contains(cache', k)
            /\ Peek(cache', k).StartTime = snap.StartTime
            /\ Peek(cache', k).EndTime = snap.EndTime
            /\ Peek(cache', k).Errors = snap.Errors
    ]_vars

C6_Witness ==
  /\ last.op = "Finish"
  /\ \E ref \in Refs :
        /\ Resident(id(ref, NilUnit))
        /\ Entry(id(ref, NilUnit)).Unit = NilUnit
        /\ Entry(id(ref, NilUnit)).TotalChunks = 2
        /\ Entry(id(ref, NilUnit)).StartTime = Ptr(1)
        /\ Entry(id(ref, NilUnit)).EndTime = Ptr(2)
        /\ Entry(id(ref, NilUnit)).Errors = <<PlainErr>>

\* The keys ReportError(ref, err) addresses, with the number of times each
\* is addressed.
ErrorTargets(ref, err, k) ==
  (IF k = id(ref, NilUnit) THEN 1 ELSE 0)
  + (IF err.scoped /\ k = id(ref, err.Unit) THEN 1 ELSE 0)

\* C7: ReportError appends an error that names a unit to the job's no-unit
\* entry and to the named unit's entry, each when resident, and an error
\* without unit scope to the job's no-unit entry only; no other entry
\* changes and no entry is created or removed.
C7_ErrorGoesToJobAndUnitEntries ==
  [][ last'.op = "ReportError" =>
      \A ref \in Refs, err \in Errs :
         ( /\ ~err.scoped \/ err.Unit.present
           /\ ReportError(ref, err) )
         => /\ KeySet(cache') = KeySet(cache)
            /\ \A k \in KeySet(cache) :
                  Peek(cache', k) =
                    [Entry(k) EXCEPT !.Errors =
                        @ \o [i \in 1..ErrorTargets(ref, err, k) |-> err]]
    ]_vars

C7_Witness ==
  /\ last.op = "ReportError"
  /\ last.branch = 121
  /\ Resident(id(MkRef(1, 2), NilUnit))
  /\ Resident(id(MkRef(1, 2), MkUnit(<<"a">>)))
  /\ Entry(id(MkRef(1, 2), NilUnit)).Errors = <<ChunkError(MkUnit(<<"a">>))>>
  /\ Entry(id(MkRef(1, 2), MkUnit(<<"a">>))).Errors = <<ChunkError(MkUnit(<<"a">>))>>

\* C8: with several contexts calling ReportChunk concurrently on a key
\* whose entry is neither evicted nor overwritten, whenever no call is
\* between its loads and its stores the entry's TotalChunks equals the
\* number of ReportChunk calls made on the key and its TotalBytes the sum of
\* their chunk sizes.
C8_NoLostUpdate ==
  (\A t \in Ctxs : pc[t] # "counting") =>
     \A k \in DOMAIN hist :
        hist[k].phase = "started" =>
           /\ Resident(k)
           /\ Entry(k).TotalChunks = hist[k].N
           /\ Entry(k).TotalBytes = hist[k].Sum

C8_Witness ==
  /\ pc[1] = "unlocking"
  /\ pc[2] = "waiting"
  /\ last.op = "ReportChunk"
  /\ \E k \in DOMAIN hist :
        /\ hist[k].phase = "started"
        /\ hist[k].N = 2
        /\ Entry(k).TotalChunks = 2
        /\ Entry(k).TotalBytes = 4

\* C9: a call that evicts entries under capacity pressure (never delivered,
\* handled flag false) logs exactly one diagnostic for each evicted key and
\* none for any other key; a UnitMetrics() call, which removes the finished
\* entries it returns with the handled flag set, logs no diagnostic.
C9_DiagnosticIffUnhandledEviction ==
  [][ IF last'.op = "UnitMetrics"
      THEN diag' = <<>>
      ELSE /\ \A k \in Gone : Cardinality({i \in 1..Len(diag') : diag'[i] = k}) = 1
           /\ \A i \in 1..Len(diag') : diag'[i] \in Gone
    ]_vars

C9_Witness ==
  /\ last.op = "StartUnitChunking"
  /\ Len(cache.items) = Capacity
  /\ \A i \in 1..Len(cache.items) :
        cache.items[i].val.Unit.present /\ ~EndSet(cache.items[i].val)
  /\ Len(diag) = 1
  /\ ~Resident(diag[1])

C11_EndTimeNeverCleared ==
  [][ last'.op # "UnitMetrics" =>
        \A k \in KeySet(cache) \cap KeySet(cache') :
           EndSet(Entry(k)) => EndSet(Peek(cache', k))
    ]_vars

\* C12 as stated: the first StartUnitChunking, ReportChunk or ReportError
\* that targets a key which is not resident creates its entry, so the key is
\* resident right after the call.
C12_FirstEventCreatesEntry ==
  [][ /\ last'.op = "StartUnitChunking" =>
           \A target \in Targets, start \in StartTimes :
              ( /\ ~Resident(id(target[1], target[2]))
                /\ StartUnitChunking(target[1], target[2], start) )
              => Contains(cache', id(target[1], target[2]))
      /\ last'.op = "ReportChunk" =>
           \A target \in Targets, size \in ChunkSizes, snap \in Snapshots :
              ( /\ ~Resident(id(target[1], target[2]))
                /\ ReportChunk(target[1], target[2], size, snap) )
              => Contains(cache', id(target[1], target[2]))
      /\ last'.op = "ReportError" =>
           \A ref \in Refs, err \in Errs :
              ReportError(ref, err) =>
                 \A k \in {id(ref, NilUnit), id(ref, err.Unit)} :
                    ~Resident(k) => Contains(cache', k)
    ]_vars

\* C12 amended: StartUnitChunking always leaves its key resident; a
\* ReportChunk for a key that is not resident creates the entry exactly when
\* its unit is absent, and drops the chunk when a unit is given; ReportError
\* never creates an entry.
C12_StartAndNoUnitChunkCreate ==
  [][ /\ last'.op = "StartUnitChunking" =>
           \A target \in Targets, start \in StartTimes :
              StartUnitChunking(target[1], target[2], start)
              => Contains(cache', id(target[1], target[2]))
      /\ last'.op = "ReportChunk" =>
           \A target \in Targets, size \in ChunkSizes, snap \in Snapshots :
              ( /\ ~Resident(id(target[1], target[2]))
                /\ ReportChunk(target[1], target[2], size, snap) )
              => (Contains(cache', id(target[1], target[2])) <=> ~target[2].present)
      /\ last'.op = "ReportError" => KeySet(cache') = KeySet(cache)
    ]_vars

C12_Witness ==
  /\ last.op = "ReportError"
  /\ last.branch = 119
  /\ ~Resident(id(MkRef(1, 2), MkUnit(<<"a">>)))
  /\ Resident(id(MkRef(1, 2), NilUnit))
  /\ Entry(id(MkRef(1, 2), NilUnit)).Errors = <<ChunkError(MkUnit(<<"a">>))>>

\* The arguments of the key derivation examined: jobs whose identifiers
\* share leading digits, an absent unit, and units with an empty identifier,
\* a plain one and one holding the separator.
KeyInputs ==
  {MkRef(1, 2), MkRef(1, 23), MkRef(12, 3)}
    \X (Units \cup {MkUnit(<<"/">>), MkUnit(<<"3", "/">>)})

\* C13: the key derivation is injective over (source id, job id, unit or
\* absent unit): two inputs that differ in the source id, the job id or the
\* unit (an absent unit differing from every present unit, whatever its
\* identifier) never yield the same key, so no resident entry is reached by
\* the calls of two different units or of a unit and the job's no-unit entry.
C13_KeyIsInjective ==
  /\ \A a, b \in KeyInputs : id(a[1], a[2]) = id(b[1], b[2]) => a = b
  /\ \A target \in Targets :
        Resident(id(target[1], target[2])) =>
           /\ Entry(id(target[1], target[2])).Parent = target[1]
           /\ Entry(id(target[1], target[2])).Unit = target[2]

\* C14: in every reachable state the number of resident cache entries is at
\* most the capacity the cache was built with.
C14_AtMostCapacityResident ==
  /\ Len(cache.items) <= cache.size
  /\ Cardinality(KeySet(cache)) = Len(cache.items)

C14_Witness ==
  /\ last.op = "ReportChunk"
  /\ last.branch = 95
  /\ Len(diag) = 1
  /\ Len(cache.items) = cache.size

\* C15: when StartUnitChunking or a no-unit ReportChunk inserts a new key
\* into a full cache, exactly one entry is evicted, the inserted key is
\* resident afterwards, and the evicted entry is the resident one whose most
\* recent touch by any call is the oldest; StartUnitChunking on a resident
\* key, like any insertion into a cache that is not full, evicts nothing.
C15_EvictsLeastRecentlyTouched ==
  [][ /\ last'.op = "StartUnitChunking" =>
           \A target \in Targets, start \in StartTimes :
              StartUnitChunking(target[1], target[2], start) =>
                 /\ Contains(cache', id(target[1], target[2]))
                 /\ Gone = IF /\ ~Resident(id(target[1], target[2]))
                              /\ Len(cache.items) = cache.size
                           THEN {Head(recent)} ELSE {}
      /\ last'.op = "ReportChunk" =>
           \A ref \in Refs, size \in ChunkSizes, snap \in Snapshots :
              ReportChunk(ref, NilUnit, size, snap) =>
                 /\ Contains(cache', id(ref, NilUnit))
                 /\ Gone = IF /\ ~Resident(id(ref, NilUnit))
                              /\ Len(cache.items) = cache.size
                           THEN {Head(recent)} ELSE {}
    ]_vars

C15_Witness ==
  /\ last.op = "StartUnitChunking"
  /\ Len(diag) = 1
  /\ Len(cache.items) = Capacity
  /\ recent = <<cache.items[1].key, cache.items[2].key>>
  /\ cache.items[1].val.Unit.present
  /\ cache.items[1].val.TotalChunks = 2
  /\ cache.items[1].val.Errors # <<>>
  /\ diag[1] = id(MkRef(1, 23), NilUnit)

\* C16: Finish(job) changes nothing but the start time, the end time and
\* the error list of the job's own no-unit entry: that entry's TotalChunks
\* and TotalBytes, every entry of the job with a unit, and every entry of
\* every other job (also of a job whose identifiers share leading digits
\* with this job's) are unchanged, and no key is added or removed.
C16_FinishChangesOnlyJobEntryTimesAndErrors ==
  [][ last'.op = "Finish" =>
      \A ref \in Refs, snap \in Snapshots :
         Finish(ref, snap) =>
            /\ KeySet(cache') = KeySet(cache)
            /\ Len(cache'.items) = Len(cache.items)
            /\ diag' = <<>>
            /\ \A k \in KeySet(cache) :
                  IF k = id(ref, NilUnit) /\ ~Entry(k).Unit.present
                  THEN Peek(cache', k) =
                         [Peek(cache', k) EXCEPT !.Unit = Entry(k).Unit,
                                                 !.Parent = Entry(k).Parent,
                                                 !.TotalChunks = Entry(k).TotalChunks,
                                                 !.TotalBytes = Entry(k).TotalBytes,
                                                 !.handled = Entry(k).handled]
                  ELSE Peek(cache', k) = Entry(k)
    ]_vars

C16_Witness ==
  /\ last.op = "Finish"
  /\ Resident(id(MkRef(1, 2), NilUnit))
  /\ Resident(id(MkRef(1, 23), NilUnit))
  /\ Entry(id(MkRef(1, 2), NilUnit)).Unit = NilUnit
  /\ Entry(id(MkRef(1, 2), NilUnit)).TotalChunks = 2
  /\ Entry(id(MkRef(1, 2), NilUnit)).TotalBytes = 4
  /\ Entry(id(MkRef(1, 2), NilUnit)).EndTime = Ptr(2)
  /\ Entry(id(MkRef(1, 2), NilUnit)).Errors = <<PlainErr>>
  /\ Entry(id(MkRef(1, 23), NilUnit)).TotalChunks = 1
  /\ Entry(id(MkRef(1, 23), NilUnit)).EndTime = NilTime
  /\ Entry(id(MkRef(1, 23), NilUnit)).Errors = <<>>

\* C17: an entry leaves the cache only as a finished entry drained by
\* UnitMetrics() or by the eviction of an insertion into a full cache:
\* EndUnitChunking, ReportError and Finish neither add nor remove a resident
\* key (EndUnitChunking on an absent key creates nothing), and UnitMetrics()
\* adds no key and removes no unfinished entry.
C17_LeavesOnlyByDrainOrEviction ==
  [][ /\ last'.op \in {"EndUnitChunking", "ReportError", "Finish"} =>
           /\ KeySet(cache') = KeySet(cache)
           /\ Len(cache'.items) = Len(cache.items)
      /\ last'.op = "UnitMetrics" =>
           /\ KeySet(cache') \subseteq KeySet(cache)
           /\ \A k \in Gone : EndSet(Entry(k))
      /\ last'.op \in {"StartUnitChunking", "ReportChunk"} =>
           \/ Gone = {}
           \/ /\ last'.branch \in {60, 95}
              /\ Len(cache.items) = cache.size
              /\ KeySet(cache') \ KeySet(cache) # {}
    ]_vars

C17_Witness ==
  /\ last.op = "EndUnitChunking"
  /\ last.branch = 74
  /\ Len(cache.items) = 1
  /\ cache.items[1].key = id(MkRef(1, 23), NilUnit)
  /\ cache.items[1].val.TotalChunks = 1

\* The contexts inside the lock-protected section of a method.
InSection == {t \in Ctxs : pc[t] \in {"locked", "counting", "blocked", "unlocking"}}

\* C18: with several contexts calling the methods concurrently, at most one
\* call is inside its lock-protected section at any time, and under fair
\* scheduling every invoked call eventually acquires the lock, completes and
\* releases it, also when its insertion runs the eviction callback while the
\* lock is held.
C18_MutualExclusionAndProgress ==
  /\ [](Cardinality(InSection) <= 1 /\ \A t \in InSection : mu = t)
  /\ \A t \in Ctxs : (pc[t] = "waiting") ~> (pc[t] = "locked")
  /\ \A t \in Ctxs : (pc[t] = "locked") ~> (pc[t] = "idle" /\ mu # t)

C18_Witness ==
  /\ pc[1] = "unlocking"
  /\ mu = 1
  /\ pc[2] = "waiting"
  /\ last.op = "StartUnitChunking"
  /\ Len(diag) = 1

\* C19: one ReportError(job, err) call appends err at most once to any one
\* cache entry, for every err, also one whose unit-scoped wrapper names an
\* absent unit, which resolves to the job's own no-unit key.
C19_ErrorAppendedAtMostOncePerEntry ==
  [][ last'.op = "ReportError" =>
        \A k \in KeySet(cache) \cap KeySet(cache') :
           \/ Peek(cache', k).Errors = Entry(k).Errors
           \/ /\ Len(Peek(cache', k).Errors) = Len(Entry(k).Errors) + 1
              /\ SubSeq(Peek(cache', k).Errors, 1, Len(Entry(k).Errors)) = Entry(k).Errors
    ]_vars

\* C20: in every state between two calls every resident entry has its
\* handled flag false: UnitMetrics() sets the flag only on a finished entry
\* that it removes in the same call, and a later StartUnitChunking for the
\* key installs a fresh entry whose flag is false.
C20_ResidentEntriesAreUnhandled ==
  /\ \A i \in 1..Len(cache.items) : ~cache.items[i].val.handled
  /\ \A i \in 1..Len(output) : ~output[i].handled

C20_Witness ==
  /\ last.op = "UnitMetrics"
  /\ Len(output) = 2
  /\ Len(cache.items) = 1
  /\ \E k \in DOMAIN hist : hist[k].phase = "delivered" /\ ~Resident(k)
  /\ cache.items[1].val.handled = FALSE
  /\ cache.items[1].val.Errors # <<>>

====
